---- MODULE Spec2Model ----
(***************************************************************************)
(* Model of the unlock/decrypt pipeline of local-pdf-toolbox.              *)
(*                                                                         *)
(*   External-Tool strategy   : POST /api/unlock (Next.js route handler)   *)
(*   Rasterize-Rebuild strategy: unlockPdfInBrowser (pdf.js + pdf-lib)     *)
(*   Standalone server         : app.post("/unlock") (Express + multer)    *)
(*   Unlock page               : UnlockPdfPage, handleUnlock, usePdfStore  *)
(*   Split                     : splitPdf (pdf-lib)                        *)
(*                                                                         *)
(* Every await of the source is a step of its own; the text of a message   *)
(* is modelled by its identity plus the set of sensitive items it carries. *)
(***************************************************************************)
EXTENDS Integers, Sequences, FiniteSets, TLC

VARIABLES
    \* ---- POST /api/unlock ----
    rpc,          \* position of each request in POST
    pdfFile,      \* formData.get("pdf")
    password,     \* formData.get("password")
    inputPath,    \* let inputPath: string | null
    outputPath,   \* let outputPath: string | null
    execError,    \* the error execFileAsync rejected with (NoError if none)
    response,     \* the NextResponse the handler returns
    consoleLog,   \* what console.error received for the request
    disk,         \* the temp directory: path -> content
    uuidCount,    \* number of randomUUID() values handed out
    created,      \* paths the request caused to exist (history)
    toolRuns,     \* number of execFile invocations of the request
    \* ---- unlockPdfInBrowser ----
    upc,          \* position of each call in unlockPdfInBrowser
    file,         \* the File argument (its size and page count)
    upassword,    \* the password argument
    hasSink,      \* whether updateProgress was passed
    progress,     \* the percentages delivered to updateProgress, in order
    totalPages,   \* const totalPages = pdfDocument.numPages
    pageNumber,   \* the loop variable
    page,         \* source page held by `page` (0: none)
    canvas,       \* source page whose pixels are on `canvas` (0: none)
    outPages,     \* pages of pdfDoc: the source page each was drawn from
    uresult,      \* outcome of the call
    loaderCalls,  \* number of loadPdfJs() calls of the call
    decoderCalls, \* number of pdfjsLib.getDocument() calls of the call
    processed,    \* page numbers the loop body was entered with, in order
    awaited,      \* the promise loadPdfJs() returned to the call
    handle,       \* the pdfjsLib the call got from await loadPdfJs() (0: none)
    opened,       \* what loadingTask.promise settled with for the call
    prompts,      \* times passwordCallback handed the password to the decoder
    \* ---- loadPdfJs (module and window state) ----
    pdfJsLoader,  \* let pdfJsLoader: Promise<any> | null
    pdfjsLib,     \* window.pdfjsLib: 0 when undefined, else the number of the
                  \* script that defined the object
    scripts,      \* number of <script> elements appended to document.head
    \* ---- app.post("/unlock") (Express) ----
    xpc,          \* position of each request in the Express handler
    xfile,        \* req.file.path (Null when req.file is undefined)
    xpassword,    \* req.body.password
    xinputPath,   \* const inputPath
    xoutputPath,  \* const outputPath
    xresponse,    \* what was sent on res
    xdisk,        \* the uploads/ directory: path -> content
    uploads,      \* number of files multer has stored
    \* ---- UnlockPdfPage and usePdfStore ----
    files,        \* store: files
    idCount,      \* number of crypto.randomUUID() values handed out
    processing,   \* store: processing
    pwInput,      \* page state: password
    result,       \* page state: result (0: null, else the run whose Blob
                  \* it holds)
    alerted,      \* the last alert() shown
    hpc,          \* position of each run of handleUnlock
    hfile,        \* the file each run appended to its FormData
    sent,         \* the requests fetch put on the network, in order
    \* ---- usePdfStore: the fields the unlock page does not use ----
    storeResult,  \* store: result
    settings,     \* store: settings
    \* ---- splitPdf ----
    spc,          \* position of the call in splitPdf
    sfile,        \* number of pages of the File argument
    soptions,     \* the options argument
    pageCount,    \* const pageCount = pdf.getPageCount()
    si,           \* the loop variable i (split by count) or the number of
                  \* ranges already taken (split by ranges)
    newPdf,       \* source page indices of the pages added to newPdf
    results       \* const results: one list of source page indices per Blob

routeVars == <<rpc, pdfFile, password, inputPath, outputPath, execError,
               response, consoleLog, disk, uuidCount, created, toolRuns>>
rasterVars == <<upc, file, upassword, hasSink, progress, totalPages,
                pageNumber, page, canvas, outPages, uresult, loaderCalls,
                decoderCalls, processed, awaited, handle, opened, prompts,
                pdfJsLoader,
                pdfjsLib, scripts>>
expressVars == <<xpc, xfile, xpassword, xinputPath, xoutputPath, xresponse,
                 xdisk, uploads>>
pageVars == <<files, idCount, processing, pwInput, result, alerted, hpc,
              hfile, sent>>
splitVars == <<spc, sfile, soptions, pageCount, si, newPdf, results>>
notRoute == <<rasterVars, expressVars, pageVars, splitVars, storeResult, settings>>
notRaster == <<routeVars, expressVars, pageVars, splitVars, storeResult, settings>>
notExpress == <<routeVars, rasterVars, pageVars, splitVars, storeResult, settings>>
storeVars == <<storeResult, settings>>
notPage == <<routeVars, rasterVars, expressVars, splitVars, storeVars>>
notStore == <<routeVars, rasterVars, expressVars, splitVars>>
notSplit == <<routeVars, rasterVars, expressVars, pageVars, storeResult, settings>>
vars == <<routeVars, rasterVars, expressVars, pageVars, splitVars, storeVars>>

----------------------------------------------------------------------------
(* Bounds and program constants *)

MAX_FILE_SIZE == 104857600
MaxPages == 4
MaxPrompts == 3

Requests == {1, 2}
Calls == {1, 2}

\* The null of `let inputPath: string | null`.
Null == [name |-> "null", uuid |-> 0]
NoError == [code |-> "none", stderr |-> [text |-> "", carries |-> {}], carries |-> {}]
NoResponse == [status |-> 0, body |-> "none", text |-> "", carries |-> {}]
NoLog == [label |-> "none", carries |-> {}]

----------------------------------------------------------------------------
(* POST /api/unlock: the External-Tool strategy *)

\* The password the submitted document is encrypted with, and a wrong one.
DocPassword == "secret"
OtherPassword == "guess"
NotAString == "<not a string>"
Passwords == {NotAString, "", DocPassword, OtherPassword}

Sizes == {0, 1, MAX_FILE_SIZE, MAX_FILE_SIZE + 1}
PdfFiles == {[isFile |-> FALSE, size |-> 0]} \cup
            {[isFile |-> TRUE, size |-> s] : s \in Sizes}

\* pdfFile before the form data has been read.
Unread == [isFile |-> FALSE, size |-> -1]

\* path.join(tmpdir(), `pdf-input-${randomUUID()}.pdf`)
\* TmpPath without the random part of the name.
TmpPathFixed(prefix, uuid) == [name |-> prefix, uuid |-> 0]

\* path.join(tmpdir(), `pdf-input-${randomUUID()}.pdf`), lines 49-50.
TmpPath(prefix, uuid) == [name |-> prefix, uuid |-> uuid]

TextResponse(text, status) ==
    [status |-> status, body |-> "text", text |-> text, carries |-> {}]

\* ValidateRequest without the check of line 38 (the empty document).
ValidateRequestNoEmptyCheck(f, pw) ==
    IF ~f.isFile THEN TextResponse("PDF file is required.", 400)
    ELSE IF pw = NotAString \/ pw = "" THEN TextResponse("Password is required.", 400)
    ELSE IF f.size > MAX_FILE_SIZE THEN TextResponse("PDF file is too large.", 400)
    ELSE NoResponse

\* The checks of lines 30-44, in order; NoResponse when all of them pass.
ValidateRequest(f, pw) ==
    IF ~f.isFile THEN TextResponse("PDF file is required.", 400)
    ELSE IF pw = NotAString \/ pw = "" THEN TextResponse("Password is required.", 400)
    ELSE IF f.size = 0 THEN TextResponse("The provided PDF is empty.", 400)
    ELSE IF f.size > MAX_FILE_SIZE THEN TextResponse("PDF file is too large.", 400)
    ELSE NoResponse

\* What the tool may have written to its error stream: nothing, a plain
\* diagnostic, or a diagnostic naming the input file (qpdf prefixes its
\* messages with the file name) or echoing its arguments.
EmptyStderr == [text |-> "", carries |-> {}]
StderrTexts == {EmptyStderr,
                [text |-> "qpdf: invalid password", carries |-> {}],
                [text |-> "qpdf: <input>: invalid password", carries |-> {"inputPath"}],
                [text |-> "qpdf: unrecognized argument --password=<pw>", carries |-> {"password"}]}

\* The ways execFile(QPDF_BINARY_PATH, [--password=pw, --decrypt, in, out])
\* can settle: the spawn fails (no such executable, not executable), or the
\* tool runs and exits with 0, with 3 (warnings, output written) or with 2
\* (error, output absent or incomplete).  A wrong password never yields output.
ToolOutcomes(pw) ==
    {[code |-> c, stderr |-> EmptyStderr, output |-> "none"] : c \in {"ENOENT", "EACCES"}}
    \cup {[code |-> "2", stderr |-> e, output |-> "none"] : e \in StderrTexts}
    \cup (IF pw = DocPassword
          THEN {[code |-> "0", stderr |-> EmptyStderr, output |-> "complete"],
                [code |-> "3", stderr |-> [text |-> "qpdf: operation succeeded with warnings",
                                           carries |-> {}], output |-> "complete"],
                [code |-> "2", stderr |-> [text |-> "qpdf: file is damaged", carries |-> {}],
                 output |-> "partial"]}
          ELSE {})

\* The error object execFileAsync rejects with: code, stderr, and cmd (the
\* whole command line: the --password argument and both paths).
ExecFileError(o) ==
    [code |-> o.code, stderr |-> o.stderr,
     carries |-> {"password", "inputPath", "outputPath"} \cup o.stderr.carries]

\* The inner catch (lines 61-76): the log entry and the response.
ExecCatchLog(err) ==
    IF err.code = "ENOENT"
    THEN [label |-> "qpdf binary not found:", carries |-> err.carries]
    ELSE [label |-> "Failed to unlock PDF:", carries |-> err.carries]

\* ExecCatchResponse answering every tool failure with status 500.
ExecCatchResponseServerError(err) ==
    IF err.code = "ENOENT"
    THEN TextResponse("qpdf binary not found. Set QPDF_BINARY_PATH to a valid executable.", 500)
    ELSE TextResponse("Failed to unlock PDF. Wrong password or file is not encrypted.", 500)

\* ExecCatchResponse without the ENOENT branch of lines 62-68.
ExecCatchResponseNoEnoent(err) ==
    IF err.stderr.text # ""
    THEN [status |-> 400, body |-> "text", text |-> err.stderr.text,
          carries |-> err.stderr.carries]
    ELSE TextResponse("Failed to unlock PDF. Wrong password or file is not encrypted.", 400)

ExecCatchResponse(err) ==
    IF err.code = "ENOENT"
    THEN TextResponse("qpdf binary not found. Set QPDF_BINARY_PATH to a valid executable.", 500)
    ELSE IF err.stderr.text # ""
         THEN [status |-> 400, body |-> "text", text |-> err.stderr.text,
               carries |-> err.stderr.carries]
         ELSE TextResponse("Failed to unlock PDF. Wrong password or file is not encrypted.", 400)

\* The outer catch (lines 87-92).
UnexpectedResponse ==
    TextResponse("Unexpected error while unlocking PDF. Please try again.", 500)
UnexpectedLog(carried) == [label |-> "Unexpected unlock error:", carries |-> carried]

\* CleanupPaths unlinking the input file only.
CleanupPathsInputOnly(inP, outP) == {p \in {inP} : p # Null}

\* The paths the finally block unlinks: the non-null ones of the two.
\* ToolSucceeded judged by the presence of an output file.
ToolSucceededIfOutput(o) == o.output # "none"

\* execFileAsync resolves when the tool exits with code 0 and rejects
\* otherwise (lines 54-61).
ToolSucceeded(o) == o.code = "0"

\* validatePdfFile (unlock-server.js lines 536-548).
maxSize == 104857600
ValidatePdfFile(f) ==
    IF ~f.isFile THEN [isValid |-> FALSE, error |-> "No file provided"]
    ELSE IF f.type # "application/pdf"
         THEN [isValid |-> FALSE, error |-> "File must be a PDF"]
    ELSE IF f.size > maxSize
         THEN [isValid |-> FALSE, error |-> "File size must be less than 100MB"]
    ELSE [isValid |-> TRUE, error |-> ""]

CleanupPaths(inP, outP) == {p \in {inP, outP} : p # Null}

WriteDisk(d, p, content) ==
    [q \in DOMAIN d \cup {p} |-> IF q = p THEN content ELSE d[q]]
UnlinkAll(d, ps) == [q \in DOMAIN d \ ps |-> d[q]]

RouteInit ==
    /\ rpc = [r \in Requests |-> "idle"]
    /\ pdfFile = [r \in Requests |-> Unread]
    /\ password = [r \in Requests |-> NotAString]
    /\ inputPath = [r \in Requests |-> Null]
    /\ outputPath = [r \in Requests |-> Null]
    /\ execError = [r \in Requests |-> NoError]
    /\ response = [r \in Requests |-> NoResponse]
    /\ consoleLog = [r \in Requests |-> NoLog]
    /\ disk = <<>>
    /\ uuidCount = 0
    /\ created = [r \in Requests |-> {}]
    /\ toolRuns = [r \in Requests |-> 0]

\* A request arrives: POST is entered and awaits request.formData().
Receive(r) ==
    /\ rpc[r] = "idle"
    /\ rpc' = [rpc EXCEPT ![r] = "formData"]
    /\ UNCHANGED <<pdfFile, password, inputPath, outputPath, execError,
                   response, consoleLog, disk, uuidCount, created, toolRuns>>
    /\ UNCHANGED notRoute

\* request.formData() rejects (a body that is no form data): outer catch.
FormDataRejected(r) ==
    /\ rpc[r] = "formData"
    /\ rpc' = [rpc EXCEPT ![r] = "finally"]
    /\ response' = [response EXCEPT ![r] = UnexpectedResponse]
    /\ consoleLog' = [consoleLog EXCEPT ![r] = UnexpectedLog({})]
    /\ UNCHANGED <<pdfFile, password, inputPath, outputPath, execError,
                   disk, uuidCount, created, toolRuns>>
    /\ UNCHANGED notRoute

\* request.formData() resolves with fields pdf = f and password = pw:
\* lines 27-46, up to await pdfFile.arrayBuffer().
FormDataResolved(r, f, pw) ==
    /\ rpc[r] = "formData"
    /\ pdfFile' = [pdfFile EXCEPT ![r] = f]
    /\ password' = [password EXCEPT ![r] = pw]
    /\ LET v == ValidateRequest(f, pw) IN
         IF v # NoResponse
         THEN /\ rpc' = [rpc EXCEPT ![r] = "finally"]
              /\ response' = [response EXCEPT ![r] = v]
         ELSE /\ rpc' = [rpc EXCEPT ![r] = "arrayBuffer"]
              /\ UNCHANGED response
    /\ UNCHANGED <<inputPath, outputPath, execError, consoleLog, disk,
                   uuidCount, created, toolRuns>>
    /\ UNCHANGED notRoute

\* arrayBuffer() rejects: outer catch.
ArrayBufferRejected(r) ==
    /\ rpc[r] = "arrayBuffer"
    /\ rpc' = [rpc EXCEPT ![r] = "finally"]
    /\ response' = [response EXCEPT ![r] = UnexpectedResponse]
    /\ consoleLog' = [consoleLog EXCEPT ![r] = UnexpectedLog({})]
    /\ UNCHANGED <<pdfFile, password, inputPath, outputPath, execError,
                   disk, uuidCount, created, toolRuns>>
    /\ UNCHANGED notRoute

\* arrayBuffer() resolves: lines 47-52, up to await fs.writeFile(inputPath, buffer).
ArrayBufferResolved(r) ==
    /\ rpc[r] = "arrayBuffer"
    /\ rpc' = [rpc EXCEPT ![r] = "writeFile"]
    /\ inputPath' = [inputPath EXCEPT ![r] = TmpPath("pdf-input", uuidCount + 1)]
    /\ outputPath' = [outputPath EXCEPT ![r] = TmpPath("pdf-output", uuidCount + 2)]
    /\ uuidCount' = uuidCount + 2
    /\ UNCHANGED <<pdfFile, password, execError, response, consoleLog,
                   disk, created, toolRuns>>
    /\ UNCHANGED notRoute

\* fs.writeFile rejects (disk full, no permission), leaving no file or an
\* incomplete one: outer catch.
WriteFileRejected(r, leftover) ==
    /\ rpc[r] = "writeFile"
    /\ rpc' = [rpc EXCEPT ![r] = "finally"]
    /\ IF leftover
       THEN /\ disk' = WriteDisk(disk, inputPath[r], "partial")
            /\ created' = [created EXCEPT ![r] = @ \cup {inputPath[r]}]
       ELSE UNCHANGED <<disk, created>>
    /\ response' = [response EXCEPT ![r] = UnexpectedResponse]
    /\ consoleLog' = [consoleLog EXCEPT ![r] = UnexpectedLog({"inputPath"})]
    /\ UNCHANGED <<pdfFile, password, inputPath, outputPath, execError,
                   uuidCount, toolRuns>>
    /\ UNCHANGED notRoute

\* fs.writeFile resolves: lines 54-60, execFileAsync is called and awaited.
WriteFileResolved(r) ==
    /\ rpc[r] = "writeFile"
    /\ rpc' = [rpc EXCEPT ![r] = "execFile"]
    /\ disk' = WriteDisk(disk, inputPath[r], "input")
    /\ created' = [created EXCEPT ![r] = @ \cup {inputPath[r]}]
    /\ toolRuns' = [toolRuns EXCEPT ![r] = @ + 1]
    /\ UNCHANGED <<pdfFile, password, inputPath, outputPath, execError,
                   response, consoleLog, uuidCount>>
    /\ UNCHANGED notRoute

\* execFileAsync settles with outcome o: the inner catch (lines 61-76) on a
\* rejection, else line 78, await fs.readFile(outputPath).
ExecFileSettled(r, o) ==
    /\ rpc[r] = "execFile"
    /\ IF o.output # "none"
       THEN /\ disk' = WriteDisk(disk, outputPath[r], o.output)
            /\ created' = [created EXCEPT ![r] = @ \cup {outputPath[r]}]
       ELSE UNCHANGED <<disk, created>>
    /\ IF ToolSucceeded(o)
       THEN /\ rpc' = [rpc EXCEPT ![r] = "readFile"]
            /\ UNCHANGED <<execError, response, consoleLog>>
       ELSE /\ rpc' = [rpc EXCEPT ![r] = "finally"]
            /\ execError' = [execError EXCEPT ![r] = ExecFileError(o)]
            /\ consoleLog' = [consoleLog EXCEPT ![r] = ExecCatchLog(ExecFileError(o))]
            /\ response' = [response EXCEPT ![r] = ExecCatchResponse(ExecFileError(o))]
    /\ UNCHANGED <<pdfFile, password, inputPath, outputPath, uuidCount, toolRuns>>
    /\ UNCHANGED notRoute

\* fs.readFile(outputPath) rejects: outer catch.
ReadFileRejected(r) ==
    /\ rpc[r] = "readFile"
    /\ rpc' = [rpc EXCEPT ![r] = "finally"]
    /\ response' = [response EXCEPT ![r] = UnexpectedResponse]
    /\ consoleLog' = [consoleLog EXCEPT ![r] = UnexpectedLog({"outputPath"})]
    /\ UNCHANGED <<pdfFile, password, inputPath, outputPath, execError,
                   disk, uuidCount, created, toolRuns>>
    /\ UNCHANGED notRoute

\* fs.readFile(outputPath) resolves: lines 79-86, the 200 response.
ReadFileResolved(r) ==
    /\ rpc[r] = "readFile"
    /\ outputPath[r] \in DOMAIN disk
    /\ rpc' = [rpc EXCEPT ![r] = "finally"]
    /\ response' = [response EXCEPT ![r] =
           [status |-> 200, body |-> "pdf", text |-> disk[outputPath[r]],
            carries |-> {}]]
    /\ UNCHANGED <<pdfFile, password, inputPath, outputPath, execError,
                   consoleLog, disk, uuidCount, created, toolRuns>>
    /\ UNCHANGED notRoute

\* The finally block (lines 93-105): both paths are unlinked and the unlinks
\* awaited; fs.unlink removes a file the process wrote and throws for a
\* path that does not exist, which is ignored.  Then POST returns.
Finally(r) ==
    /\ rpc[r] = "finally"
    /\ rpc' = [rpc EXCEPT ![r] = "returned"]
    /\ disk' = UnlinkAll(disk, CleanupPaths(inputPath[r], outputPath[r]))
    /\ UNCHANGED <<pdfFile, password, inputPath, outputPath, execError,
                   response, consoleLog, uuidCount, created, toolRuns>>
    /\ UNCHANGED notRoute

RouteStep(r) ==
    \/ Receive(r)
    \/ FormDataRejected(r)
    \/ \E f \in PdfFiles, pw \in Passwords : FormDataResolved(r, f, pw)
    \/ ArrayBufferRejected(r)
    \/ ArrayBufferResolved(r)
    \/ \E leftover \in BOOLEAN : WriteFileRejected(r, leftover)
    \/ WriteFileResolved(r)
    \/ \E o \in ToolOutcomes(password[r]) : ExecFileSettled(r, o)
    \/ ReadFileRejected(r)
    \/ ReadFileResolved(r)
    \/ Finally(r)

----------------------------------------------------------------------------
(* loadPdfJs and unlockPdfInBrowser: the Rasterize-Rebuild strategy *)

\* The width of the band the page events are scaled into (line 670).
BandWidth == 50
ConcPages == 2

\* Page counts: the small ones, and the two around 2 * BandWidth, where
\* Math.round((1 / totalPages) * BandWidth) drops from 1 to 0.
PageCounts == (0..MaxPages) \cup {2 * BandWidth, 2 * BandWidth + 1}
\* A File: its size in bytes and, when it parses, its number of pages.
Files == {[size |-> 0, numPages |-> 0]} \cup
         {[size |-> 1, numPages |-> n] : n \in PageCounts}
UPasswords == {"", DocPassword, OtherPassword}

NoResult == [kind |-> "none", message |-> ""]
Blob == [kind |-> "blob", message |-> ""]
Failure(message) == [kind |-> "error", message |-> message]

PasswordErrorMessage == "Incorrect password. Please verify and try again."

\* Math.round(a / b) for a >= 0, b > 0: halves round up.
Round(a, b) == (2 * a + b) \div (2 * b)

\* PagePercent without the 30..80 band: the plain percentage of pages.
PagePercentNoBand(pn, total) == Round(pn * 100, total)

\* PagePercent with Math.floor in place of Math.round.
PagePercentFloor(pn, total) == 30 + ((pn * BandWidth) \div total)

\* 30 + Math.round((pageNumber / totalPages) * 50)
PagePercent(pn, total) == 30 + Round(pn * BandWidth, total)

\* Emit with one sink shared by all calls.
EmitToAll(c, percent) ==
    [d \in Calls |-> IF hasSink[d] THEN Append(progress[d], percent) ELSE progress[d]]

\* updateProgress?.(percent, step)
Emit(c, percent) ==
    IF hasSink[c] THEN [progress EXCEPT ![c] = Append(@, percent)] ELSE progress

\* What loadingTask.promise can settle with for file f and password pw.  An
\* empty file is no PDF; a wrong or empty password is rejected by the
\* decoder, through the password callback or with a PasswordException (with
\* or without a message); any document may fail to parse, with a message
\* that may happen to hold the word "password" or with none.
NoOutcome == [ok |-> FALSE, viaCallback |-> FALSE, name |-> "", message |-> ""]
OpenOutcomes(f, pw) ==
    IF f.size = 0
    THEN {[ok |-> FALSE, viaCallback |-> FALSE, name |-> "InvalidPDFException",
           message |-> "The PDF file is empty, i.e. its size is zero bytes."]}
    ELSE {[ok |-> FALSE, viaCallback |-> FALSE, name |-> "InvalidPDFException",
           message |-> "Invalid PDF structure."],
          [ok |-> FALSE, viaCallback |-> FALSE, name |-> "UnknownErrorException",
           message |-> ""],
          [ok |-> FALSE, viaCallback |-> FALSE, name |-> "UnknownErrorException",
           message |-> "Password-based encryption is not supported."]}
         \cup (IF pw = DocPassword
               THEN {[ok |-> TRUE, viaCallback |-> FALSE, name |-> "", message |-> ""]}
               ELSE {[ok |-> FALSE, viaCallback |-> TRUE, name |-> "Error",
                      message |-> PasswordErrorMessage],
                     [ok |-> FALSE, viaCallback |-> FALSE, name |-> "PasswordException",
                      message |-> "Incorrect Password"],
                     [ok |-> FALSE, viaCallback |-> FALSE, name |-> "PasswordException",
                      message |-> "No password given"],
                     [ok |-> FALSE, viaCallback |-> FALSE, name |-> "PasswordException",
                      message |-> ""]})

\* /password/gi.test(message), over the messages of OpenOutcomes.
MentionsPassword(message) ==
    message \in {PasswordErrorMessage, "Incorrect Password", "No password given",
                 "Password-based encryption is not supported."}

\* LoadEncryptedPdfError without the test of error.name (line 631).
LoadEncryptedPdfErrorNoName(o) ==
    IF o.viaCallback \/ MentionsPassword(o.message)
    THEN Failure(PasswordErrorMessage)
    ELSE Failure(o.message)

\* The catch of loadEncryptedPdf (lines 628-637): the error it throws.
LoadEncryptedPdfError(o) ==
    IF o.viaCallback \/ o.name = "PasswordException" \/ MentionsPassword(o.message)
    THEN Failure(PasswordErrorMessage)
    ELSE Failure(o.message)

\* The catch of unlockPdfInBrowser (lines 656-663) on error e.
OpenCatch(e) ==
    IF e.message # "" THEN e
    ELSE Failure("Unable to open the encrypted PDF with the provided password.")

RasterInit ==
    /\ upc = [c \in Calls |-> "idle"]
    /\ file = [c \in Calls |-> [size |-> 0, numPages |-> 0]]
    /\ upassword = [c \in Calls |-> ""]
    /\ hasSink = [c \in Calls |-> FALSE]
    /\ progress = [c \in Calls |-> <<>>]
    /\ totalPages = [c \in Calls |-> 0]
    /\ pageNumber = [c \in Calls |-> 0]
    /\ page = [c \in Calls |-> 0]
    /\ canvas = [c \in Calls |-> 0]
    /\ outPages = [c \in Calls |-> <<>>]
    /\ uresult = [c \in Calls |-> NoResult]
    /\ loaderCalls = [c \in Calls |-> 0]
    /\ decoderCalls = [c \in Calls |-> 0]
    /\ processed = [c \in Calls |-> <<>>]
    /\ awaited = [c \in Calls |-> "none"]
    /\ handle = [c \in Calls |-> 0]
    /\ opened = [c \in Calls |-> NoOutcome]
    /\ prompts = [c \in Calls |-> 0]
    /\ pdfJsLoader = "null"
    /\ pdfjsLib = 0
    /\ scripts = 0

loaderVars == <<pdfJsLoader, pdfjsLib, scripts>>

\* unlockPdfInBrowser(file, password, updateProgress?) is called: line 645,
\* await file.arrayBuffer().
Call(c, f, pw, sink) ==
    /\ upc[c] = "idle"
    /\ upc' = [upc EXCEPT ![c] = "arrayBuffer"]
    /\ file' = [file EXCEPT ![c] = f]
    /\ upassword' = [upassword EXCEPT ![c] = pw]
    /\ hasSink' = [hasSink EXCEPT ![c] = sink]
    /\ UNCHANGED <<progress, totalPages, pageNumber, page, canvas, outPages,
                   uresult, loaderCalls, decoderCalls, processed, awaited,
                   loaderVars>>
    /\ UNCHANGED <<handle, opened, prompts>>
    /\ UNCHANGED notRaster

\* Rejected with the loop body in a try whose catch goes on to the next
\* page: the error of a page is kept and the loop continues.
RejectedSkipsPage(c) ==
    /\ upc[c] \in {"arrayBuffer", "create", "getPage", "render", "encode",
                   "embedPng", "save"}
    /\ uresult' = [uresult EXCEPT ![c] = Failure(upc[c])]
    /\ IF upc[c] \in {"getPage", "render", "encode", "embedPng"}
       THEN /\ pageNumber' = [pageNumber EXCEPT ![c] = @ + 1]
            /\ IF pageNumber[c] + 1 <= totalPages[c]
               THEN /\ upc' = [upc EXCEPT ![c] = "getPage"]
                    /\ processed' = [processed EXCEPT ![c] = Append(@, pageNumber[c] + 1)]
               ELSE /\ upc' = [upc EXCEPT ![c] = "save"]
                    /\ UNCHANGED processed
       ELSE /\ upc' = [upc EXCEPT ![c] = "failed"]
            /\ UNCHANGED <<pageNumber, processed>>
    /\ UNCHANGED <<file, upassword, hasSink, progress, totalPages,
                   page, canvas, outPages, loaderCalls, decoderCalls,
                   awaited, loaderVars>>
    /\ UNCHANGED <<handle, opened, prompts>>
    /\ UNCHANGED notRaster

\* An awaited promise outside the try of lines 650-663 rejects: the error
\* leaves unlockPdfInBrowser.
Rejected(c) ==
    /\ upc[c] \in {"arrayBuffer", "create", "getPage", "render", "encode",
                   "embedPng", "save"}
    /\ upc' = [upc EXCEPT ![c] = "failed"]
    /\ uresult' = [uresult EXCEPT ![c] = Failure(upc[c])]
    /\ UNCHANGED <<file, upassword, hasSink, progress, totalPages, pageNumber,
                   page, canvas, outPages, loaderCalls, decoderCalls,
                   processed, awaited, loaderVars>>
    /\ UNCHANGED <<handle, opened, prompts>>
    /\ UNCHANGED notRaster

\* loadPdfJs with the test of line 576 on window.pdfjsLib in place of
\* pdfJsLoader: a script is injected by every call made before the load ends.
LoadPdfJsUnguarded(c) ==
    IF pdfjsLib # 0
    THEN /\ awaited' = [awaited EXCEPT ![c] = "resolved"]
         /\ UNCHANGED loaderVars
    ELSE /\ awaited' = [awaited EXCEPT ![c] = "pdfJsLoader"]
         /\ pdfJsLoader' = "pending"
         /\ scripts' = scripts + 1
         /\ UNCHANGED pdfjsLib

\* LoadPdfJs that starts a new load when the earlier one was rejected.
LoadPdfJsRetry(c) ==
    IF pdfjsLib # 0
    THEN /\ awaited' = [awaited EXCEPT ![c] = "resolved"]
         /\ UNCHANGED loaderVars
    ELSE /\ awaited' = [awaited EXCEPT ![c] = "pdfJsLoader"]
         /\ IF pdfJsLoader \in {"null", "PDF.js failed to load.",
                                "Failed to load PDF.js from CDN."}
            THEN /\ pdfJsLoader' = "pending"
                 /\ scripts' = scripts + 1
                 /\ UNCHANGED pdfjsLib
            ELSE UNCHANGED loaderVars

\* loadPdfJs() called by c (lines 567-596): the promise it returns, and the
\* script it injects when there is neither a library nor a loader yet.
LoadPdfJs(c) ==
    IF pdfjsLib # 0
    THEN /\ awaited' = [awaited EXCEPT ![c] = "resolved"]
         /\ UNCHANGED loaderVars
    ELSE /\ awaited' = [awaited EXCEPT ![c] = "pdfJsLoader"]
         /\ IF pdfJsLoader = "null"
            THEN /\ pdfJsLoader' = "pending"
                 /\ scripts' = scripts + 1
                 /\ UNCHANGED pdfjsLib
            ELSE UNCHANGED loaderVars

\* file.arrayBuffer() resolves: line 646, loadPdfJs() is called (lines
\* 567-596) and its promise awaited.
ArrayBufferDone(c) ==
    /\ upc[c] = "arrayBuffer"
    /\ upc' = [upc EXCEPT ![c] = "loadPdfJs"]
    /\ loaderCalls' = [loaderCalls EXCEPT ![c] = @ + 1]
    /\ LoadPdfJs(c)
    /\ UNCHANGED <<file, upassword, hasSink, progress, totalPages, pageNumber,
                   page, canvas, outPages, uresult, decoderCalls, processed>>
    /\ UNCHANGED <<handle, opened, prompts>>
    /\ UNCHANGED notRaster

\* script.onload (lines 581-589): the script defined window.pdfjsLib, or
\* did not.
ScriptOnLoad(defined) ==
    /\ pdfJsLoader = "pending"
    /\ pdfjsLib' = IF defined THEN scripts ELSE pdfjsLib
    /\ pdfJsLoader' = IF pdfjsLib' # 0 THEN "resolved" ELSE "PDF.js failed to load."
    /\ UNCHANGED <<upc, file, upassword, hasSink, progress, totalPages,
                   pageNumber, page, canvas, outPages, uresult, loaderCalls,
                   decoderCalls, processed, awaited, scripts>>
    /\ UNCHANGED <<handle, opened, prompts>>
    /\ UNCHANGED notRaster

\* script.onerror (line 590).
ScriptOnError ==
    /\ pdfJsLoader = "pending"
    /\ pdfJsLoader' = "Failed to load PDF.js from CDN."
    /\ UNCHANGED <<upc, file, upassword, hasSink, progress, totalPages,
                   pageNumber, page, canvas, outPages, uresult, loaderCalls,
                   decoderCalls, processed, awaited, scripts, pdfjsLib>>
    /\ UNCHANGED <<handle, opened, prompts>>
    /\ UNCHANGED notRaster

\* The errors the loader promise is rejected with (lines 584 and 590); a
\* rejected pdfJsLoader is held as its error.
LoadErrors == {"PDF.js failed to load.", "Failed to load PDF.js from CDN."}

Settled(c) ==
    IF awaited[c] = "pdfJsLoader" THEN pdfJsLoader ELSE awaited[c]

\* await loadPdfJs() rejects: the error leaves unlockPdfInBrowser.
LoadPdfJsRejected(c) ==
    /\ upc[c] = "loadPdfJs"
    /\ Settled(c) \in LoadErrors
    /\ upc' = [upc EXCEPT ![c] = "failed"]
    /\ uresult' = [uresult EXCEPT ![c] = Failure(Settled(c))]
    /\ UNCHANGED <<file, upassword, hasSink, progress, totalPages, pageNumber,
                   page, canvas, outPages, loaderCalls, decoderCalls,
                   processed, awaited, loaderVars>>
    /\ UNCHANGED <<handle, opened, prompts>>
    /\ UNCHANGED notRaster

\* await loadPdfJs() resolves: line 647 emits 30, then loadEncryptedPdf
\* calls pdfjsLib.getDocument and awaits loadingTask.promise.
LoadPdfJsResolved(c) ==
    /\ upc[c] = "loadPdfJs"
    /\ Settled(c) = "resolved"
    /\ upc' = [upc EXCEPT ![c] = "open"]
    /\ progress' = Emit(c, 30)
    /\ decoderCalls' = [decoderCalls EXCEPT ![c] = @ + 1]
    /\ handle' = [handle EXCEPT ![c] = pdfjsLib]
    /\ UNCHANGED <<file, upassword, hasSink, totalPages, pageNumber, page,
                   canvas, outPages, uresult, loaderCalls, processed, awaited,
                   loaderVars>>
    /\ UNCHANGED <<opened, prompts>>
    /\ UNCHANGED notRaster

\* loadingTask.promise settles with o: on a failure the two catches run and
\* the error leaves unlockPdfInBrowser; else line 665, await
\* PDFDocument.create().
OpenSettled(c, o) ==
    /\ upc[c] = "open"
    /\ IF o.ok
       THEN /\ upc' = [upc EXCEPT ![c] = "create"]
            /\ UNCHANGED uresult
       ELSE /\ upc' = [upc EXCEPT ![c] = "failed"]
            /\ uresult' = [uresult EXCEPT ![c] = OpenCatch(LoadEncryptedPdfError(o))]
    /\ opened' = [opened EXCEPT ![c] = o]
    /\ UNCHANGED <<file, upassword, hasSink, progress, totalPages, pageNumber,
                   page, canvas, outPages, loaderCalls, decoderCalls,
                   processed, awaited, loaderVars>>
    /\ UNCHANGED <<handle, prompts>>
    /\ UNCHANGED notRaster

\* The reason the decoder gives passwordCallback for the password it holds,
\* if it honours the callback: NEED_PASSWORD when it holds none (an empty
\* one), INCORRECT_PASSWORD when the one it holds does not open the file.
Reports(f, pw) ==
    IF f.size = 0 \/ pw = DocPassword THEN {}
    ELSE IF pw = "" THEN {"NEED_PASSWORD"}
    ELSE {"INCORRECT_PASSWORD"}

\* What loadingTask.promise settles with when passwordCallback throws
\* passwordError (line 622).
CallbackRejection ==
    [ok |-> FALSE, viaCallback |-> TRUE, name |-> "Error",
     message |-> PasswordErrorMessage]

\* passwordCallback (lines 616-623) called by the decoder with a reason:
\* for NEED_PASSWORD it hands over the password of the call, and the
\* decoder tries again; otherwise it throws passwordError.
PasswordCallback(c, reason) ==
    /\ upc[c] = "open"
    /\ IF reason = "NEED_PASSWORD"
       THEN /\ prompts[c] < MaxPrompts
            /\ prompts' = [prompts EXCEPT ![c] = @ + 1]
            /\ UNCHANGED <<upc, file, upassword, hasSink, progress, totalPages,
                           pageNumber, page, canvas, outPages, uresult,
                           loaderCalls, decoderCalls, processed, awaited,
                           loaderVars, handle, opened>>
            /\ UNCHANGED notRaster
       ELSE OpenSettled(c, CallbackRejection)

\* LoopTest with the test pageNumber < totalPages.
LoopTestExclusive(c, pn, n) ==
    /\ pageNumber' = [pageNumber EXCEPT ![c] = pn]
    /\ IF pn < n
       THEN /\ progress' = Emit(c, PagePercent(pn, n))
            /\ processed' = [processed EXCEPT ![c] = Append(@, pn)]
            /\ upc' = [upc EXCEPT ![c] = "getPage"]
       ELSE /\ progress' = Emit(c, 90)
            /\ upc' = [upc EXCEPT ![c] = "save"]
            /\ UNCHANGED processed

\* The loop of line 668 evaluated with loop variable pn and total pages n:
\* the body starts (lines 669-674: the progress event, then await
\* pdfDocument.getPage(pn)), or the loop is left (lines 702-703: the 90
\* event, then await pdfDoc.save()).
LoopTest(c, pn, n) ==
    /\ pageNumber' = [pageNumber EXCEPT ![c] = pn]
    /\ IF pn <= n
       THEN /\ progress' = Emit(c, PagePercent(pn, n))
            /\ processed' = [processed EXCEPT ![c] = Append(@, pn)]
            /\ upc' = [upc EXCEPT ![c] = "getPage"]
       ELSE /\ progress' = Emit(c, 90)
            /\ upc' = [upc EXCEPT ![c] = "save"]
            /\ UNCHANGED processed

\* PDFDocument.create() resolves: lines 666-668.
CreateDone(c) ==
    /\ upc[c] = "create"
    /\ totalPages' = [totalPages EXCEPT ![c] = file[c].numPages]
    /\ LoopTest(c, 1, file[c].numPages)
    /\ UNCHANGED <<file, upassword, hasSink, page, canvas, outPages, uresult,
                   loaderCalls, decoderCalls, awaited, loaderVars>>
    /\ UNCHANGED <<handle, opened, prompts>>
    /\ UNCHANGED notRaster

\* getPage resolves: lines 675-687.  Without a 2-D context line 680 throws;
\* else the page is rendered onto the new canvas and the render awaited.
GetPageDone(c, context) ==
    /\ upc[c] = "getPage"
    /\ page' = [page EXCEPT ![c] = pageNumber[c]]
    /\ canvas' = [canvas EXCEPT ![c] = 0]
    /\ IF context
       THEN /\ upc' = [upc EXCEPT ![c] = "render"]
            /\ UNCHANGED uresult
       ELSE /\ upc' = [upc EXCEPT ![c] = "failed"]
            /\ uresult' = [uresult EXCEPT ![c] =
                   Failure("Canvas rendering is not supported in this environment.")]
    /\ UNCHANGED <<file, upassword, hasSink, progress, totalPages, pageNumber,
                   outPages, loaderCalls, decoderCalls, processed, awaited,
                   loaderVars>>
    /\ UNCHANGED <<handle, opened, prompts>>
    /\ UNCHANGED notRaster

\* renderTask.promise resolves: lines 689-690, the canvas holds the page;
\* it is encoded and await dataUrlToUint8Array(imgData).
RenderDone(c) ==
    /\ upc[c] = "render"
    /\ canvas' = [canvas EXCEPT ![c] = page[c]]
    /\ upc' = [upc EXCEPT ![c] = "encode"]
    /\ UNCHANGED <<file, upassword, hasSink, progress, totalPages, pageNumber,
                   page, outPages, uresult, loaderCalls, decoderCalls,
                   processed, awaited, loaderVars>>
    /\ UNCHANGED <<handle, opened, prompts>>
    /\ UNCHANGED notRaster

\* dataUrlToUint8Array resolves: line 691, await pdfDoc.embedPng(imageBytes).
EncodeDone(c) ==
    /\ upc[c] = "encode"
    /\ upc' = [upc EXCEPT ![c] = "embedPng"]
    /\ UNCHANGED <<file, upassword, hasSink, progress, totalPages, pageNumber,
                   page, canvas, outPages, uresult, loaderCalls, decoderCalls,
                   processed, awaited, loaderVars>>
    /\ UNCHANGED <<handle, opened, prompts>>
    /\ UNCHANGED notRaster

\* embedPng resolves: lines 692-699 add the page and draw the image on it,
\* then pageNumber++ and the loop test.
EmbedDone(c) ==
    /\ upc[c] = "embedPng"
    /\ outPages' = [outPages EXCEPT ![c] = Append(@, canvas[c])]
    /\ LoopTest(c, pageNumber[c] + 1, totalPages[c])
    /\ UNCHANGED <<file, upassword, hasSink, totalPages, page, canvas,
                   uresult, loaderCalls, decoderCalls, awaited, loaderVars>>
    /\ UNCHANGED <<handle, opened, prompts>>
    /\ UNCHANGED notRaster

\* pdfDoc.save() resolves: lines 704-706, the 100 event and the Blob.
SaveDone(c) ==
    /\ upc[c] = "save"
    /\ progress' = Emit(c, 100)
    /\ uresult' = [uresult EXCEPT ![c] = Blob]
    /\ upc' = [upc EXCEPT ![c] = "done"]
    /\ UNCHANGED <<file, upassword, hasSink, totalPages, pageNumber, page,
                   canvas, outPages, loaderCalls, decoderCalls, processed,
                   awaited, loaderVars>>
    /\ UNCHANGED <<handle, opened, prompts>>
    /\ UNCHANGED notRaster

\* The steps of a call once it is made.
RasterRun(c) ==
    \/ Rejected(c)
    \/ ArrayBufferDone(c)
    \/ LoadPdfJsRejected(c)
    \/ LoadPdfJsResolved(c)
    \/ \E o \in {x \in OpenOutcomes(file[c], upassword[c]) : ~x.viaCallback} :
          OpenSettled(c, o)
    \/ \E reason \in Reports(file[c], upassword[c]) : PasswordCallback(c, reason)
    \/ CreateDone(c)
    \/ \E context \in BOOLEAN : GetPageDone(c, context)
    \/ RenderDone(c)
    \/ EncodeDone(c)
    \/ EmbedDone(c)
    \/ SaveDone(c)

RasterStep(c) ==
    \/ \E f \in Files, pw \in UPasswords, sink \in BOOLEAN : Call(c, f, pw, sink)
    \/ RasterRun(c)

\* Calls made while others are in flight: documents of at most ConcPages pages.
ConcFiles == {f \in Files : f.numPages <= ConcPages}
RasterConcStep(c) ==
    \/ \E f \in ConcFiles, pw \in UPasswords, sink \in BOOLEAN : Call(c, f, pw, sink)
    \/ RasterRun(c)

ScriptStep ==
    \/ \E defined \in BOOLEAN : ScriptOnLoad(defined)
    \/ ScriptOnError

----------------------------------------------------------------------------
(* app.post("/unlock"): the standalone Express server *)

\* multer({ dest: "uploads/" }) stores each upload under a random name.
UploadPath(n) == [name |-> "uploads", uuid |-> n]
\* inputPath + "-unlocked.pdf" (line 26).
UnlockedPath(p) == [name |-> "uploads-unlocked", uuid |-> p.uuid]
\* res.status(400).send(...) of lines 35-37.
XFailure == TextResponse("Failed to unlock PDF. Wrong password or not encrypted.", 400)
\* The answer of Express's default error handler to an error thrown by the
\* handler.
XThrown == TextResponse("TypeError: Cannot read properties of undefined (reading 'path')", 500)
\* res.download(outputPath, "unlocked.pdf", cb): sent, or failed on the way.
XDownload(content, ok) ==
    [status |-> 200, body |-> IF ok THEN "pdf" ELSE "aborted", text |-> content,
     carries |-> {}]

ExpressInit ==
    /\ xpc = [x \in Requests |-> "idle"]
    /\ xfile = [x \in Requests |-> Null]
    /\ xpassword = [x \in Requests |-> NotAString]
    /\ xinputPath = [x \in Requests |-> Null]
    /\ xoutputPath = [x \in Requests |-> Null]
    /\ xresponse = [x \in Requests |-> NoResponse]
    /\ xdisk = <<>>
    /\ uploads = 0

\* upload.single("pdf") (line 23): multer stores the part named pdf, if
\* the request has one, and sets req.file and req.body.
Upload(x, hasFile, pw) ==
    /\ xpc[x] = "idle"
    /\ xpc' = [xpc EXCEPT ![x] = "handler"]
    /\ xpassword' = [xpassword EXCEPT ![x] = pw]
    /\ IF hasFile
       THEN /\ uploads' = uploads + 1
            /\ xfile' = [xfile EXCEPT ![x] = UploadPath(uploads + 1)]
            /\ xdisk' = WriteDisk(xdisk, UploadPath(uploads + 1), "upload")
       ELSE UNCHANGED <<uploads, xfile, xdisk>>
    /\ UNCHANGED <<xinputPath, xoutputPath, xresponse>>
    /\ UNCHANGED notExpress

\* The handler, lines 24-30: req.file.path throws when req.file is
\* undefined; otherwise qpdf is started.
Handler(x) ==
    /\ xpc[x] = "handler"
    /\ IF xfile[x] = Null
       THEN /\ xpc' = [xpc EXCEPT ![x] = "handled"]
            /\ xresponse' = [xresponse EXCEPT ![x] = XThrown]
            /\ UNCHANGED <<xinputPath, xoutputPath>>
       ELSE /\ xpc' = [xpc EXCEPT ![x] = "execFile"]
            /\ xinputPath' = [xinputPath EXCEPT ![x] = xfile[x]]
            /\ xoutputPath' = [xoutputPath EXCEPT ![x] = UnlockedPath(xfile[x])]
            /\ UNCHANGED xresponse
    /\ UNCHANGED <<xfile, xpassword, xdisk, uploads>>
    /\ UNCHANGED notExpress

\* The callback of execFile, lines 31-45, after qpdf ended with outcome o.
ExecFileCallback(x, o) ==
    /\ xpc[x] = "execFile"
    /\ LET written == IF o.output # "none"
                      THEN WriteDisk(xdisk, xoutputPath[x], o.output)
                      ELSE xdisk
       IN IF o.code # "0"
          THEN /\ xresponse' = [xresponse EXCEPT ![x] = XFailure]
               /\ xdisk' = UnlinkAll(written, {xinputPath[x]})
               /\ xpc' = [xpc EXCEPT ![x] = "handled"]
          ELSE /\ xdisk' = written
               /\ xpc' = [xpc EXCEPT ![x] = "download"]
               /\ UNCHANGED xresponse
    /\ UNCHANGED <<xfile, xpassword, xinputPath, xoutputPath, uploads>>
    /\ UNCHANGED notExpress

\* The callback of res.download, lines 41-44, called after the transfer
\* ended or failed.
DownloadCallback(x, ok) ==
    /\ xpc[x] = "download"
    /\ xresponse' = [xresponse EXCEPT ![x] = XDownload(xdisk[xoutputPath[x]], ok)]
    /\ xdisk' = UnlinkAll(xdisk, {xinputPath[x], xoutputPath[x]})
    /\ xpc' = [xpc EXCEPT ![x] = "handled"]
    /\ UNCHANGED <<xfile, xpassword, xinputPath, xoutputPath, uploads>>
    /\ UNCHANGED notExpress

ExpressStep(x) ==
    \/ \E hasFile \in BOOLEAN, pw \in Passwords : Upload(x, hasFile, pw)
    \/ Handler(x)
    \/ \E o \in ToolOutcomes(xpassword[x]) : ExecFileCallback(x, o)
    \/ \E ok \in BOOLEAN : DownloadCallback(x, ok)

----------------------------------------------------------------------------
(* UnlockPdfPage (src/app/unlock/page.tsx) and usePdfStore *)

MaxFiles == 2
MaxDrops == 2
MaxRuns == 2
Runs == 1..MaxRuns

PdfType == "application/pdf"
\* The dropzone accepts application/pdf only (lines 36-42).
DropFiles == {[isFile |-> TRUE, type |-> PdfType, size |-> 1],
              [isFile |-> TRUE, type |-> PdfType, size |-> maxSize],
              [isFile |-> TRUE, type |-> PdfType, size |-> maxSize + 1]}
NoFile == [isFile |-> FALSE, type |-> "", size |-> 0]
PagePasswords == {"", DocPassword}

\* const defaultProcessing (pdf-store.ts lines 61-66).
defaultProcessing ==
    [isProcessing |-> FALSE, progress |-> 0, currentStep |-> "", error |-> "null"]

\* Merge that starts from the defaults instead of the current state.
MergeReplace(state, partial) ==
    [k \in DOMAIN state |->
        IF k \in DOMAIN partial THEN partial[k] ELSE defaultProcessing[k]]

\* { ...state.processing, ...processing } (pdf-store.ts line 106).
Merge(state, partial) ==
    [k \in DOMAIN state |-> IF k \in DOMAIN partial THEN partial[k] ELSE state[k]]

\* files.filter(f => f.id !== id) (pdf-store.ts line 88).
RECURSIVE Filter(_, _)
Filter(seq, id) ==
    IF seq = <<>> THEN <<>>
    ELSE IF Head(seq).id = id THEN Filter(Tail(seq), id)
    ELSE <<Head(seq)>> \o Filter(Tail(seq), id)

GenericError == "Failed to unlock PDF. Please check the password or try another file."
\* error.message of what the catch block may receive: the text of a
\* response that is not ok (possibly empty) or the error of a failed fetch.
ServerText == "Failed to unlock PDF. Wrong password or file is not encrypted."
FetchError == "Failed to fetch"
\* error.message || "Failed to unlock PDF. ..." (line 85).
ErrorShown(message) == IF message = "" THEN GenericError ELSE message

\* The catch block (lines 81-86).
Catch(message) ==
    Merge(processing, [isProcessing |-> FALSE, error |-> ErrorShown(message)])

PageInit ==
    /\ files = <<>>
    /\ idCount = 0
    /\ processing = defaultProcessing
    /\ pwInput = ""
    /\ result = 0
    /\ alerted = "none"
    /\ hpc = [k \in Runs |-> "idle"]
    /\ hfile = [k \in Runs |-> NoFile]
    /\ sent = <<>>

\* onDrop (lines 22-34) with the one file the dropzone accepts at a time:
\* addFile (pdf-store.ts lines 73-85) for a valid file, alert otherwise.
OnDrop(f) ==
    /\ idCount < MaxDrops /\ Len(files) < MaxFiles
    /\ IF ValidatePdfFile(f).isValid
       THEN /\ idCount' = idCount + 1
            /\ files' = Append(files, [id |-> idCount + 1, file |-> f])
            /\ UNCHANGED alerted
       ELSE /\ alerted' = ValidatePdfFile(f).error
            /\ UNCHANGED <<files, idCount>>
    /\ UNCHANGED <<processing, pwInput, result, hpc, hfile, sent>>
    /\ UNCHANGED notPage

\* removeFile(id) (pdf-store.ts lines 86-90).
RemoveFile(id) ==
    /\ \E i \in 1..Len(files) : files[i].id = id
    /\ files' = Filter(files, id)
    /\ UNCHANGED <<idCount, processing, pwInput, result, alerted, hpc, hfile, sent>>
    /\ UNCHANGED notPage

\* The Clear button (line 146): clearFiles (pdf-store.ts lines 91-93).
ClearFiles ==
    /\ Len(files) > 0
    /\ files' = <<>>
    /\ UNCHANGED <<idCount, processing, pwInput, result, alerted, hpc, hfile, sent>>
    /\ UNCHANGED notPage

\* The password input (lines 161-173), rendered when a file is selected.
SetPassword(pw) ==
    /\ Len(files) > 0
    /\ pwInput # pw
    /\ pwInput' = pw
    /\ UNCHANGED <<files, idCount, processing, result, alerted, hpc, hfile, sent>>
    /\ UNCHANGED notPage

\* Submitted taking the newest entry.
SubmittedLast(fs) == fs[Len(fs)].file

\* const file = files[0].file (line 62).
Submitted(fs) == fs[1].file

\* disabled={files.length === 0 || !password || processing.isProcessing}
\* (line 217).
ButtonDisabled == Len(files) = 0 \/ pwInput = "" \/ processing.isProcessing

\* A click on Unlock PDF starts run k of handleUnlock (lines 44-71): the two
\* setProcessing calls, the FormData of files[0].file and the password,
\* and fetch("/api/unlock", POST), which is then awaited.
HandleUnlock(k) ==
    /\ ~ButtonDisabled
    /\ hpc[k] = "idle" /\ \A j \in 1..(k - 1) : hpc[j] # "idle"
    /\ processing' =
          Merge(Merge(processing, [isProcessing |-> TRUE, progress |-> 0,
                                   currentStep |-> "Uploading file..."]),
                [progress |-> 25, currentStep |-> "Unlocking PDF..."])
    /\ hfile' = [hfile EXCEPT ![k] = Submitted(files)]
    /\ sent' = Append(sent, [url |-> "/api/unlock", method |-> "POST",
                             pdf |-> Submitted(files), password |-> pwInput])
    /\ hpc' = [hpc EXCEPT ![k] = "fetch"]
    /\ UNCHANGED <<files, idCount, pwInput, result, alerted>>
    /\ UNCHANGED notPage

\* await fetch(...) settles (lines 68-77): with an ok response, with a
\* response that is not ok, or with a rejection, which goes to catch and
\* finally, where the timer is set.
FetchSettled(k, outcome) ==
    /\ hpc[k] = "fetch"
    /\ CASE outcome = "ok" ->
                /\ processing' = Merge(processing,
                      [progress |-> 75, currentStep |-> "Receiving unlocked PDF..."])
                /\ hpc' = [hpc EXCEPT ![k] = "blob"]
         [] outcome = "notOk" ->
                /\ hpc' = [hpc EXCEPT ![k] = "text"]
                /\ UNCHANGED processing
         [] outcome = "rejected" ->
                /\ processing' = Catch(FetchError)
                /\ hpc' = [hpc EXCEPT ![k] = "timer"]
    /\ UNCHANGED <<files, idCount, pwInput, result, alerted, hfile, sent>>
    /\ UNCHANGED notPage

\* await response.text() settles (line 74): the error is thrown, caught
\* (lines 81-86), and the timer is set (lines 87-91).
TextSettled(k, message) ==
    /\ hpc[k] = "text"
    /\ processing' = Catch(message)
    /\ hpc' = [hpc EXCEPT ![k] = "timer"]
    /\ UNCHANGED <<files, idCount, pwInput, result, alerted, hfile, sent>>
    /\ UNCHANGED notPage

\* await response.blob() settles (lines 78-80 or the catch block), and the
\* timer is set.
BlobSettled(k, ok) ==
    /\ hpc[k] = "blob"
    /\ IF ok
       THEN /\ processing' = Merge(processing,
                   [progress |-> 100, currentStep |-> "Complete!"])
            /\ result' = k
       ELSE /\ processing' = Catch(FetchError)
            /\ UNCHANGED result
    /\ hpc' = [hpc EXCEPT ![k] = "timer"]
    /\ UNCHANGED <<files, idCount, pwInput, alerted, hfile, sent>>
    /\ UNCHANGED notPage

\* Timer that also clears the page's result.
TimerClearsResult(k) ==
    /\ hpc[k] = "timer"
    /\ processing' = Merge(processing,
          [isProcessing |-> FALSE, progress |-> 0, currentStep |-> ""])
    /\ result' = 0
    /\ hpc' = [hpc EXCEPT ![k] = "finished"]
    /\ UNCHANGED <<files, idCount, pwInput, alerted, hfile, sent>>
    /\ UNCHANGED notPage

\* The setTimeout callback of run k fires (lines 88-90).
Timer(k) ==
    /\ hpc[k] = "timer"
    /\ processing' = Merge(processing,
          [isProcessing |-> FALSE, progress |-> 0, currentStep |-> ""])
    /\ hpc' = [hpc EXCEPT ![k] = "finished"]
    /\ UNCHANGED <<files, idCount, pwInput, result, alerted, hfile, sent>>
    /\ UNCHANGED notPage

PageStep ==
    \/ \E f \in DropFiles : OnDrop(f)
    \/ \E id \in 1..MaxDrops : RemoveFile(id)
    \/ ClearFiles
    \/ \E pw \in PagePasswords : SetPassword(pw)
    \/ \E k \in Runs :
          \/ HandleUnlock(k)
          \/ \E outcome \in {"ok", "notOk", "rejected"} : FetchSettled(k, outcome)
          \/ \E message \in {"", ServerText, FetchError} : TextSettled(k, message)
          \/ \E ok \in BOOLEAN : BlobSettled(k, ok)
          \/ Timer(k)

----------------------------------------------------------------------------
(* usePdfStore (src/app/store/pdf-store.ts): the operations by themselves, *)
(* as any page of the application may call them                            *)

\* const defaultSettings (pdf-store.ts lines 54-59).
defaultSettings ==
    [defaultQuality |-> "0.8", maxFileSize |-> maxSize,
     enableNotifications |-> TRUE, autoDownload |-> TRUE]

\* The arguments pages pass to setProcessing.
Partials ==
    {[isProcessing |-> TRUE, progress |-> 0, currentStep |-> "Uploading file..."],
     [progress |-> 25, currentStep |-> "Unlocking PDF..."],
     [progress |-> 100, currentStep |-> "Complete!"],
     [isProcessing |-> FALSE, error |-> GenericError],
     [isProcessing |-> FALSE, progress |-> 0, currentStep |-> ""]}
SettingsPartials == {[autoDownload |-> FALSE], [enableNotifications |-> FALSE],
                     [autoDownload |-> TRUE, enableNotifications |-> TRUE]}

StoreInit ==
    /\ storeResult = "null"
    /\ settings = defaultSettings

\* addFile(file) (pdf-store.ts lines 73-85).
AddFile(f) ==
    /\ idCount < MaxDrops /\ Len(files) < MaxFiles
    /\ idCount' = idCount + 1
    /\ files' = Append(files, [id |-> idCount + 1, file |-> f])
    /\ UNCHANGED <<processing, pwInput, result, alerted, hpc, hfile, sent>>
    /\ UNCHANGED storeVars
    /\ UNCHANGED notStore

\* setProcessing(partial) (pdf-store.ts lines 104-108).
SetProcessing(partial) ==
    /\ processing' = Merge(processing, partial)
    /\ UNCHANGED <<files, idCount, pwInput, result, alerted, hpc, hfile, sent>>
    /\ UNCHANGED storeVars
    /\ UNCHANGED notStore

\* resetProcessing() (pdf-store.ts lines 109-111).
ResetProcessing ==
    /\ processing' = defaultProcessing
    /\ UNCHANGED <<files, idCount, pwInput, result, alerted, hpc, hfile, sent>>
    /\ UNCHANGED storeVars
    /\ UNCHANGED notStore

\* setResult(result) (pdf-store.ts lines 115-117).
SetResult(b) ==
    /\ storeResult' = b
    /\ UNCHANGED settings
    /\ UNCHANGED pageVars
    /\ UNCHANGED notStore

\* updateSettings(partial) (pdf-store.ts lines 121-125).
UpdateSettings(partial) ==
    /\ settings' = [k \in DOMAIN settings |->
                       IF k \in DOMAIN partial THEN partial[k] ELSE settings[k]]
    /\ UNCHANGED storeResult
    /\ UNCHANGED pageVars
    /\ UNCHANGED notStore

StoreStep ==
    \/ \E f \in DropFiles : AddFile(f)
    \/ \E id \in 1..MaxDrops : RemoveFile(id)
    \/ ClearFiles
    \/ \E partial \in Partials : SetProcessing(partial)
    \/ ResetProcessing
    \/ \E b \in {"null", "blob"} : SetResult(b)
    \/ \E partial \in SettingsPartials : UpdateSettings(partial)

----------------------------------------------------------------------------
(* splitPdf (unlock-server.js lines 457-488) *)

MaxSplitPages == 4
MaxPerFile == 3
\* The Blobs the results array can hold before the tab runs out of memory.
MaxDocs == 6

\* options: split by count with pagesPerFile, or by ranges [start, end]
\* (1-based, inclusive).
SplitOptions ==
    {[splitByCount |-> TRUE, pagesPerFile |-> n, pageRanges |-> <<>>] :
        n \in (-1)..MaxPerFile}
    \cup {[splitByCount |-> FALSE, pagesPerFile |-> 1, pageRanges |-> rs] :
        rs \in {<< <<1, 1>> >>, << <<1, 2>>, <<3, 3>> >>, << <<2, 1>> >>}}

Min(a, b) == IF a < b THEN a ELSE b
\* Array.from({ length: n }, (_, idx) => from + idx): empty for n <= 0.
ArrayFrom(n, from) == [idx \in 1..n |-> from + idx - 1]

\* The indices handed to copyPages in the current iteration (lines 467-468
\* and 476-477).
Indices ==
    IF soptions.splitByCount
    THEN ArrayFrom(Min(si + soptions.pagesPerFile, pageCount) - si, si)
    ELSE LET range == soptions.pageRanges[si + 1]
         IN ArrayFrom(range[2] - range[1] + 1, range[1] - 1)

\* i < pageCount (line 465), or a further range left (line 474).
SplitLoopTest(i) ==
    IF soptions.splitByCount THEN i < pageCount
    ELSE i < Len(soptions.pageRanges)

\* i += pagesPerFile (line 465), or the next range.
SplitStepI == IF soptions.splitByCount THEN si + soptions.pagesPerFile ELSE si + 1

SplitInit ==
    /\ spc = "idle"
    /\ sfile = 0
    /\ soptions = [splitByCount |-> TRUE, pagesPerFile |-> 1, pageRanges |-> <<>>]
    /\ pageCount = 0
    /\ si = 0
    /\ newPdf = <<>>
    /\ results = <<>>

\* splitPdf(file, options) is called and awaits file.arrayBuffer().
SplitCall(n, options) ==
    /\ spc = "idle"
    /\ spc' = "arrayBuffer"
    /\ sfile' = n
    /\ soptions' = options
    /\ UNCHANGED <<pageCount, si, newPdf, results>>
    /\ UNCHANGED notSplit

\* file.arrayBuffer() resolves; PDFDocument.load is awaited (line 460).
SplitArrayBufferDone ==
    /\ spc = "arrayBuffer"
    /\ spc' = "load"
    /\ UNCHANGED <<sfile, soptions, pageCount, si, newPdf, results>>
    /\ UNCHANGED notSplit

\* PDFDocument.load resolves (lines 461-465, 474): the page count is read
\* and the loop is entered or skipped.
SplitLoadDone ==
    /\ spc = "load"
    /\ pageCount' = sfile
    /\ si' = 0
    /\ results' = <<>>
    /\ spc' = IF (IF soptions.splitByCount THEN 0 < sfile
                  ELSE 0 < Len(soptions.pageRanges))
              THEN "create" ELSE "returned"
    /\ UNCHANGED <<sfile, soptions, newPdf>>
    /\ UNCHANGED notSplit

\* PDFDocument.create() resolves; copyPages is awaited (lines 466-468).
SplitCreateDone ==
    /\ spc = "create"
    /\ newPdf' = <<>>
    /\ spc' = "copyPages"
    /\ UNCHANGED <<sfile, soptions, pageCount, si, results>>
    /\ UNCHANGED notSplit

\* copyPages settles (lines 468-470): it rejects for an index that is not
\* a page of the source; otherwise the copies are added and save awaited.
SplitCopyDone ==
    /\ spc = "copyPages"
    /\ IF \A k \in 1..Len(Indices) : Indices[k] \in 0..(pageCount - 1)
       THEN /\ newPdf' = Indices
            /\ spc' = "save"
       ELSE /\ spc' = "threw"
            /\ UNCHANGED newPdf
    /\ UNCHANGED <<sfile, soptions, pageCount, si, results>>
    /\ UNCHANGED notSplit

\* newPdf.save() resolves (lines 470-472): the Blob is pushed, the loop
\* variable stepped and the loop test taken again.
SplitSaveDone ==
    /\ spc = "save"
    /\ Len(results) < MaxDocs
    /\ results' = Append(results, newPdf)
    /\ si' = SplitStepI
    /\ spc' = IF SplitLoopTest(si') THEN "create" ELSE "returned"
    /\ UNCHANGED <<sfile, soptions, pageCount, newPdf>>
    /\ UNCHANGED notSplit

\* An awaited promise rejects: the catch block rethrows (lines 485-487).
SplitRejected ==
    /\ spc \in {"arrayBuffer", "load", "create", "save"}
    /\ spc' = "threw"
    /\ UNCHANGED <<sfile, soptions, pageCount, si, newPdf, results>>
    /\ UNCHANGED notSplit

SplitStep ==
    \/ \E n \in 0..MaxSplitPages, options \in SplitOptions : SplitCall(n, options)
    \/ SplitArrayBufferDone
    \/ SplitLoadDone
    \/ SplitCreateDone
    \/ SplitCopyDone
    \/ SplitSaveDone
    \/ SplitRejected

----------------------------------------------------------------------------
(* Specifications *)

Init == RouteInit /\ RasterInit /\ ExpressInit /\ PageInit /\ SplitInit /\ StoreInit

\* One request through POST /api/unlock.
RouteNext == RouteStep(1)
SpecRoute == Init /\ [][RouteNext]_vars

\* Two requests through POST /api/unlock, interleaved at their awaits.
RouteConcNext == \E r \in Requests : RouteStep(r)
SpecRouteConc == Init /\ [][RouteConcNext]_vars

\* One call of unlockPdfInBrowser, with the script loader.
RasterNext == RasterStep(1) \/ ScriptStep
SpecRaster == Init /\ [][RasterNext]_vars

\* Two calls of unlockPdfInBrowser, interleaved at their awaits.
RasterConcNext == (\E c \in Calls : RasterConcStep(c)) \/ ScriptStep
SpecRasterConc == Init /\ [][RasterConcNext]_vars

\* Two requests to the Express server, interleaved at its callbacks.
ExpressNext == \E x \in Requests : ExpressStep(x)
SpecExpress == Init /\ [][ExpressNext]_vars

\* The unlock page: drops, the password field and runs of handleUnlock.
PageNext == PageStep
SpecPage == Init /\ [][PageNext]_vars

\* The store under any sequence of its operations.
StoreNext == StoreStep
SpecStore == Init /\ [][StoreNext]_vars

\* One call of splitPdf.
SplitNext == SplitStep
SpecSplit == Init /\ [][SplitNext]_vars

Next == RouteNext \/ RasterNext
Spec == Init /\ [][Next]_vars

----------------------------------------------------------------------------
(* Properties of POST /api/unlock (checked under SpecRoute) *)

Ended(r) == rpc[r] = "returned"
Sensitive == {"password", "inputPath", "outputPath"}

\* C1: when POST returns its response, no temporary file the request
\* created (the input file, the tool's output file) exists any more,
\* whichever path led to the return.
C1_TempFilesDeleted ==
    \A r \in Requests : Ended(r) => created[r] \cap DOMAIN disk = {}

\* A request returned after it had created both its files.
C1_Witness ==
    \E r \in Requests : Ended(r) /\ Cardinality(created[r]) = 2

\* The form data was read and fails one of the checks of lines 30-44.
InvalidRequest(r) ==
    /\ pdfFile[r] # Unread
    /\ \/ ~pdfFile[r].isFile
       \/ password[r] \in {NotAString, ""}
       \/ pdfFile[r].size = 0
       \/ pdfFile[r].size > MAX_FILE_SIZE

\* C2: a request whose document is missing, empty or oversized, or whose
\* password is missing or empty, is answered with status 400, never gets
\* past validation, creates no temporary file and never runs the tool.
C2_InvalidRejectedEarly ==
    \A r \in Requests :
        (rpc[r] \notin {"idle", "formData"} /\ InvalidRequest(r)) =>
            /\ rpc[r] \in {"finally", "returned"}
            /\ response[r].status = 400
            /\ inputPath[r] = Null /\ outputPath[r] = Null
            /\ created[r] = {}
            /\ toolRuns[r] = 0

\* A zero-byte document with a good password was answered.
C2_Witness ==
    \E r \in Requests :
        /\ Ended(r) /\ pdfFile[r].isFile /\ pdfFile[r].size = 0
        /\ password[r] = DocPassword /\ response[r].status = 400

\* C5: when the tool ran on a document submitted with an incorrect
\* password, the request ends with a status-400 text response (no document
\* bytes) and none of its temporary files is left.
C5_WrongPassword ==
    \A r \in Requests :
        (Ended(r) /\ password[r] = OtherPassword
                  /\ execError[r].code \notin {"none", "ENOENT", "EACCES"}) =>
            /\ response[r].status = 400
            /\ response[r].body = "text"
            /\ created[r] # {}
            /\ created[r] \cap DOMAIN disk = {}

\* The tool rejected a wrong password and the request returned.
C5_Witness ==
    \E r \in Requests :
        /\ Ended(r) /\ password[r] = OtherPassword /\ execError[r].code = "2"
        /\ toolRuns[r] = 1

\* C6: when the spawn fails with ENOENT the handler still returns a
\* response, and it is the status-500 tool-unavailable one.
C6_ToolUnavailable ==
    \A r \in Requests :
        (rpc[r] \in {"finally", "returned"} /\ execError[r].code = "ENOENT") =>
            /\ response[r].status = 500
            /\ response[r].text =
                 "qpdf binary not found. Set QPDF_BINARY_PATH to a valid executable."

\* A request whose spawn failed with ENOENT returned.
C6_Witness ==
    \E r \in Requests : Ended(r) /\ execError[r].code = "ENOENT"

\* C7: a spawn failure other than ENOENT is answered with a server-error
\* status.
C7_OtherSpawnFailureIsInternal ==
    \A r \in Requests :
        (Ended(r) /\ execError[r].code = "EACCES") => response[r].status >= 500

\* C8: the message of a failing request carries neither the password nor a
\* temporary path.
C8_MessageLeaksNothing ==
    \A r \in Requests :
        response[r].status >= 400 => response[r].carries \cap Sensitive = {}

\* C9: nothing that is logged carries the password.
C9_PasswordNeverLogged ==
    \A r \in Requests : "password" \notin consoleLog[r].carries

----------------------------------------------------------------------------
(* Properties of unlockPdfInBrowser (checked under SpecRaster) *)

NonDecreasing(seq) ==
    \A i \in 1..(Len(seq) - 1) : seq[i] <= seq[i + 1]
EndsAt100(seq) == Len(seq) > 0 /\ seq[Len(seq)] = 100
Iota(n) == [k \in 1..n |-> k]

\* C3: a call with a zero-byte file or an empty password neither calls
\* loadPdfJs nor the decoder.
C3_ValidatedBeforeLoading ==
    \A c \in Calls :
        (upc[c] # "idle" /\ (file[c].size = 0 \/ upassword[c] = "")) =>
            loaderCalls[c] = 0 /\ decoderCalls[c] = 0

\* C4: the percentages delivered to the sink never decrease, and the last
\* one delivered is 100 exactly when the call has returned its Blob.
C4_ProgressMonotone ==
    \A c \in Calls :
        /\ NonDecreasing(progress[c])
        /\ hasSink[c] => (EndsAt100(progress[c]) <=> uresult[c] = Blob)
        /\ upc[c] = "done" <=> uresult[c] = Blob

\* A call with a sink returned the Blob of a document of MaxPages pages.
C4_Witness ==
    \E c \in Calls :
        /\ upc[c] = "done" /\ hasSink[c] /\ file[c].numPages = MaxPages
        /\ Len(progress[c]) = MaxPages + 3

\* C10: the loop body is entered with page numbers 1, 2, 3, ... in this
\* order, output page k is drawn from source page k, and a returned
\* document has exactly as many pages as the source.
C10_PagesInOrder ==
    \A c \in Calls :
        /\ processed[c] = Iota(Len(processed[c]))
        /\ outPages[c] = Iota(Len(outPages[c]))
        /\ Len(outPages[c]) <= Len(processed[c])
        /\ upc[c] = "done" =>
              /\ Len(outPages[c]) = file[c].numPages
              /\ processed[c] = outPages[c]

\* A call returned a document of MaxPages pages.
C10_Witness ==
    \E c \in Calls :
        /\ upc[c] = "done" /\ file[c].numPages = MaxPages
        /\ Len(outPages[c]) = MaxPages

\* The errors a step of the page loop ends the call with.
PageFailures == {"getPage", "render", "encode", "embedPng",
                 "Canvas rendering is not supported in this environment."}
Events(c) == {progress[c][i] : i \in 1..Len(progress[c])}

\* C11: once a step of page i has failed, the call has ended with that
\* error and no document, pages 1..i-1 are all that was embedded, no page
\* after i was started, and neither 90 nor 100 was emitted.
C11_PageFailureAborts ==
    \A c \in Calls :
        (uresult[c].kind = "error" /\ uresult[c].message \in PageFailures) =>
            /\ upc[c] = "failed"
            /\ pageNumber[c] \in 1..totalPages[c]
            /\ processed[c] = Iota(pageNumber[c])
            /\ outPages[c] = Iota(pageNumber[c] - 1)
            /\ 90 \notin Events(c) /\ 100 \notin Events(c)

\* A call with a sink failed on its second page of MaxPages, without a
\* 2-D context.
C11_Witness ==
    \E c \in Calls :
        /\ upc[c] = "failed" /\ hasSink[c]
        /\ uresult[c].message = "Canvas rendering is not supported in this environment."
        /\ pageNumber[c] = 2 /\ totalPages[c] = MaxPages

\* The messages of the decoder that hold "password" in any case.
HoldsPasswordWord(message) ==
    message \in {"Incorrect password. Please verify and try again.",
                 "Incorrect Password", "No password given",
                 "Password-based encryption is not supported."}
OpenFailed(c) == upc[c] = "failed" /\ opened[c] # NoOutcome /\ ~opened[c].ok

\* C12: a failed open ends the call with the password error exactly when
\* the decoder rejected the password in the callback, or raised a
\* PasswordException, or raised an error whose message holds "password";
\* any other failed open ends it with another error.
C12_PasswordClassification ==
    \A c \in Calls :
        OpenFailed(c) =>
            /\ uresult[c].kind = "error"
            /\ (uresult[c] = Failure(PasswordErrorMessage)) <=>
                   \/ opened[c].viaCallback
                   \/ opened[c].name = "PasswordException"
                   \/ HoldsPasswordWord(opened[c].message)

\* An open failed with a PasswordException that carries no message, and
\* the call ended with the password error.
C12_Witness ==
    \E c \in Calls :
        /\ OpenFailed(c) /\ opened[c].name = "PasswordException"
        /\ opened[c].message = "" /\ uresult[c] = Failure(PasswordErrorMessage)

\* C13: at most one script is ever injected, and every call that got a
\* library from loadPdfJs got the one object window.pdfjsLib holds.
C13_LoadedOnce ==
    /\ scripts <= 1
    /\ \A c \in Calls :
          /\ upc[c] \in {"open", "create", "getPage", "render", "encode",
                         "embedPng", "save", "done"} => handle[c] # 0
          /\ handle[c] # 0 => handle[c] = pdfjsLib
    /\ \A c, d \in Calls : (handle[c] # 0 /\ handle[d] # 0) => handle[c] = handle[d]

\* Two calls were both made before the load ended, and both got the library.
C13_Witness ==
    /\ scripts = 1
    /\ \A c \in Calls : awaited[c] = "pdfJsLoader" /\ handle[c] # 0

StrictlyBetween(seq, lo, hi) ==
    Cardinality({i \in 1..Len(seq) : lo < seq[i] /\ seq[i] < hi})

\* C18 as stated: a successful call on N pages delivers at least N events
\* strictly between 30 and 90, ends at 100 and returns N pages.
C18_AsStated ==
    \A c \in Calls :
        (upc[c] = "done" /\ hasSink[c]) =>
            /\ StrictlyBetween(progress[c], 30, 90) >= file[c].numPages
            /\ EndsAt100(progress[c])
            /\ Len(outPages[c]) = file[c].numPages

\* C18 (amended): a successful call on N pages delivers, after the first
\* event, N page events from 30 to 80, then 90, then 100, and returns N
\* pages; for N <= 2 * BandWidth all N page events are above 30.
C18_PageEvents ==
    \A c \in Calls :
        (upc[c] = "done" /\ hasSink[c]) =>
            LET n == file[c].numPages IN
            /\ Len(progress[c]) = n + 3
            /\ \A i \in 2..(n + 1) : 30 <= progress[c][i] /\ progress[c][i] <= 80
            /\ progress[c][n + 2] = 90 /\ progress[c][n + 3] = 100
            /\ Len(outPages[c]) = n
            /\ n <= 2 * BandWidth => StrictlyBetween(progress[c], 30, 90) >= n

\* A call with a sink returned a document of 2 * BandWidth pages.
C18_Witness ==
    \E c \in Calls :
        upc[c] = "done" /\ hasSink[c] /\ file[c].numPages = 2 * BandWidth

\* The events a call on n pages delivers when nothing fails.
ExpectedProgress(n) ==
    <<30>> \o [i \in 1..n |-> PagePercent(i, n)] \o <<90, 100>>
IsPrefix(seq, full) ==
    Len(seq) <= Len(full) /\ \A i \in 1..Len(seq) : seq[i] = full[i]
Locals(c) == <<upc[c], file[c], upassword[c], hasSink[c], progress[c],
               totalPages[c], pageNumber[c], page[c], canvas[c], outPages[c],
               uresult[c], opened[c], handle[c], prompts[c]>>

C20_Isolated ==
    \A c \in Calls :
        /\ hasSink[c] => IsPrefix(progress[c], ExpectedProgress(file[c].numPages))
        /\ outPages[c] = Iota(Len(outPages[c]))
        /\ upc[c] = "done" =>
              /\ uresult[c] = Blob
              /\ outPages[c] = Iota(file[c].numPages)
              /\ hasSink[c] => progress[c] = ExpectedProgress(file[c].numPages)

C20_Frame ==
    \A c, d \in Calls :
        (c # d /\ upc'[d] # upc[d]) => Locals(c)' = Locals(c)

\* C20: each call's sink gets that call's events only, in order; each
\* returned document holds that call's pages; and a step of one call
\* changes nothing the other call holds.
C20_IndependentCalls == []C20_Isolated /\ [][C20_Frame]_vars

\* Two calls with the same file, password and a sink each both returned.
C20_Witness ==
    /\ \A c \in Calls : upc[c] = "done" /\ hasSink[c]
                        /\ file[c].numPages = ConcPages
    /\ \A c, d \in Calls : file[c] = file[d] /\ upassword[c] = upassword[d]

-----------------------------------------------------------------------------
(* Properties of POST /api/unlock, continued *)

OwnPaths(r) == {inputPath[r], outputPath[r]} \ {Null}

C14_Paths ==
    /\ \A r \in Requests :
          /\ created[r] \subseteq OwnPaths(r)
          /\ inputPath[r] # Null => inputPath[r] # outputPath[r]
    /\ \A r, q \in Requests :
          r # q => /\ OwnPaths(r) \cap OwnPaths(q) = {}
                   /\ created[r] \cap created[q] = {}
    /\ \A r \in Requests :
          (rpc[r] = "finally" /\ response[r].status = 200) =>
              /\ outputPath[r] \in created[r]
              /\ response[r].text = "complete"

C14_Frame ==
    \A r, q \in Requests :
        (r # q /\ rpc'[q] # rpc[q]) =>
            \A p \in OwnPaths(r) :
                /\ (p \in DOMAIN disk') = (p \in DOMAIN disk)
                /\ p \in DOMAIN disk => disk'[p] = disk[p]

\* C14: two requests in flight never hold a common temporary path, each
\* writes, reads and unlinks only paths it made itself, and a step of one
\* request leaves the files of the other as they were.
C14_OwnFilesOnly == []C14_Paths /\ [][C14_Frame]_vars

\* Both requests have their input and their output file on disk at once.
C14_Witness ==
    /\ \A r \in Requests : rpc[r] = "readFile" /\ created[r] = OwnPaths(r)
    /\ Cardinality(DOMAIN disk) = 4

C15_Outcome ==
    \A r \in Requests :
        /\ rpc[r] \in {"idle", "formData", "arrayBuffer", "writeFile", "execFile",
                       "readFile"} => response[r] = NoResponse
        /\ rpc[r] \in {"finally", "returned"} =>
              \/ /\ response[r].status = 200 /\ response[r].body = "pdf"
                 /\ response[r].text = "complete"
                 /\ execError[r] = NoError /\ toolRuns[r] = 1
              \/ /\ response[r].status \in {400, 500} /\ response[r].body = "text"
                 /\ response[r].text \notin {"complete", "partial"}

C15_SetOnce ==
    \A r \in Requests : response[r] # NoResponse => response'[r] = response[r]

\* C15: a request that has been answered has one response, set once: either
\* status 200 with the complete output file, read after the tool exited
\* with code 0, or an error status with a text and no document bytes.
C15_OneOutcome == []C15_Outcome /\ [][C15_SetOnce]_vars

\* A tool run that left a partial output file was answered with an error.
C15_Witness ==
    \E r \in Requests :
        /\ Ended(r) /\ response[r].status = 400
        /\ outputPath[r] \in created[r] /\ execError[r] # NoError

\* C19: a document gets past the validation of the route, and is valid for
\* validatePdfFile, only if its size is above zero and below the maximum.
C19_AcceptedOnlyInRange ==
    \A r \in Requests :
        pdfFile[r].isFile =>
            /\ inputPath[r] # Null =>
                  (0 < pdfFile[r].size /\ pdfFile[r].size < MAX_FILE_SIZE)
            /\ ValidatePdfFile([isFile |-> TRUE, type |-> "application/pdf",
                                size |-> pdfFile[r].size]).isValid =>
                  (0 < pdfFile[r].size /\ pdfFile[r].size < maxSize)

-----------------------------------------------------------------------------
(* Properties of the unlock page and of the Express server *)

\* C16: no request carrying the user's file or password is put on the
\* network by the unlock page.
C16_NothingLeavesDevice ==
    \A i \in 1..Len(sent) : ~sent[i].pdf.isFile /\ sent[i].password = ""

\* C17: once a request to the Express server has been handled, it has an
\* answer, and neither its uploaded file nor its output file is on disk.
C17_BothFilesDeleted ==
    \A x \in Requests :
        xpc[x] = "handled" =>
            /\ xresponse[x] # NoResponse
            /\ xinputPath[x] \notin DOMAIN xdisk
            /\ xoutputPath[x] \notin DOMAIN xdisk


-----------------------------------------------------------------------------
(* Properties of unlockPdfInBrowser, continued *)

PageEvents(seq) == Cardinality({i \in 2..Len(seq) : seq[i] < 90})

\* C21: the sink has received no more page events than pages have been
\* embedded into the output document.
C21_EventAfterEmbed ==
    \A c \in Calls :
        hasSink[c] => PageEvents(progress[c]) <= Len(outPages[c])

\* C22: the sink has received an event only if the source was opened;
\* a call whose open failed has delivered nothing.
C22_InitialEventAfterOpen ==
    \A c \in Calls :
        /\ progress[c] # <<>> => opened[c].ok
        /\ OpenFailed(c) => progress[c] = <<>>

-----------------------------------------------------------------------------
(* Properties of splitPdf *)

RECURSIVE Concat(_)
Concat(seqs) == IF seqs = <<>> THEN <<>> ELSE Head(seqs) \o Concat(Tail(seqs))
CeilDiv(a, b) == (a + b - 1) \div b

C23_Result ==
    (spc = "returned" /\ soptions.splitByCount /\ soptions.pagesPerFile >= 1) =>
        /\ Len(results) = CeilDiv(sfile, soptions.pagesPerFile)
        /\ Concat(results) = [k \in 1..sfile |-> k - 1]
        /\ \A d \in 1..(Len(results) - 1) : Len(results[d]) = soptions.pagesPerFile
        /\ \A d \in 1..Len(results) : Len(results[d]) \in 1..soptions.pagesPerFile

\* The by-count loop ends because i grows: every pass that goes back to
\* the loop test has moved i forward, so there are at most P passes.
C23_LoopAdvances ==
    (spc = "save" /\ spc' \in {"create", "returned"} /\ soptions.splitByCount) =>
        /\ si' > si
        /\ Len(results') <= pageCount

\* C23: a call of splitPdf by count does not loop forever, whatever
\* pagesPerFile is: each pass of its loop moves i towards P.  With
\* pagesPerFile >= 1 it returns ceil(P / pagesPerFile) documents that hold
\* pages 0..P-1 in order, pagesPerFile each except possibly the last.
C23_SplitTerminates == []C23_Result /\ [][C23_LoopAdvances]_vars

-----------------------------------------------------------------------------
(* Properties of usePdfStore and of handleUnlock *)

Ids(seq) == {seq[i].id : i \in 1..Len(seq)}
Without(seq, id) == SelectSeq(seq, LAMBDA e : e.id # id)
Overwrites(old, new, partial) ==
    \A k \in DOMAIN old :
        new[k] = IF k \in DOMAIN partial THEN partial[k] ELSE old[k]
RestOfStore == <<storeResult, settings>>

C24_Frame ==
    /\ files' # files =>
          /\ \/ /\ Len(files') = Len(files) + 1
                /\ SubSeq(files', 1, Len(files)) = files
                /\ files'[Len(files')].id \notin Ids(files)
             \/ \E id \in Ids(files) : files' = Without(files, id)
             \/ files' = <<>>
          /\ processing' = processing /\ RestOfStore' = RestOfStore
    /\ processing' # processing =>
          /\ \/ \E partial \in Partials : Overwrites(processing, processing', partial)
             \/ processing' = defaultProcessing
          /\ files' = files /\ RestOfStore' = RestOfStore
    /\ RestOfStore' # RestOfStore => files' = files /\ processing' = processing

InFlight(k) == hpc[k] \in {"fetch", "text", "blob"}
Starts(k) == hpc[k] = "idle" /\ hpc'[k] = "fetch"
Succeeds(k) == hpc[k] = "blob" /\ hpc'[k] = "timer" /\ processing'.progress = 100
Fails(k) == InFlight(k) /\ hpc'[k] = "timer" /\ ~Succeeds(k)

\* C25: while a run of handleUnlock is in flight, isProcessing is true,
\* the Unlock button is disabled, and no other run is in flight.
C25_NoOverlap ==
    \A k \in Runs :
        InFlight(k) =>
            /\ processing.isProcessing
            /\ processing.progress > 0
            /\ ButtonDisabled
            /\ \A j \in Runs : InFlight(j) => j = k

C26_Step ==
    \A k \in Runs : (Starts(k) \/ Succeeds(k)) => processing'.error = "null"

\* C26: when a run of handleUnlock starts, and when one completes with a
\* document, processing.error is null.
C26_ErrorCleared == [][C26_Step]_vars

C27_Step ==
    /\ result' # result => \E k \in Runs : Succeeds(k) /\ result' = k
    /\ \A k \in Runs : (Starts(k) \/ Fails(k)) => result' = result

\* C27: the page's result changes only when a run completes with a
\* document, which then becomes the result; a failed run and the start of
\* a run leave it as it was.
C27_ResultKept == [][C27_Step]_vars

\* The document of run 1 is still the result after run 2 has failed and
\* its error is shown.
C27_Witness ==
    /\ result = 1
    /\ hpc[2] \in {"timer", "finished"}
    /\ processing.error # "null"

C28_Oldest ==
    \A i \in 1..Len(files) : files[1].id <= files[i].id

C28_Step ==
    /\ \A k \in Runs :
          Starts(k) => /\ hfile'[k] = files[1].file
                       /\ sent' = Append(sent, sent'[Len(sent')])
                       /\ sent'[Len(sent')].pdf = files[1].file
    /\ (Len(files) > 0 /\ Len(files') > Len(files)) => files'[1] = files[1]
    /\ (Len(files) > 0 /\ Len(files') > 0 /\ files'[1] # files[1]) =>
          files' = Without(files, files[1].id)

\* C28: a run submits the file of files[1], the oldest entry; a drop
\* leaves the first entry in place; the first entry changes only when it
\* is removed.
C28_FirstFileSubmitted == []C28_Oldest /\ [][C28_Step]_vars

\* With two different files in the store, the run submitted the first.
C28_Witness ==
    /\ Len(files) = 2 /\ files[1].file # files[2].file
    /\ hpc[1] = "fetch" /\ hfile[1] = files[1].file
    /\ sent # <<>> /\ sent[Len(sent)].pdf = files[1].file

-----------------------------------------------------------------------------
(* Properties of loadPdfJs and loadEncryptedPdf, continued *)

C29_Cached ==
    pdfJsLoader \in LoadErrors =>
        /\ scripts = 1 /\ pdfjsLib = 0
        /\ \A c \in Calls :
              /\ handle[c] = 0
              /\ (upc[c] = "failed" /\ loaderCalls[c] = 1) =>
                    /\ uresult[c] = Failure(pdfJsLoader)
                    /\ progress[c] = <<>> /\ decoderCalls[c] = 0

C29_Step ==
    pdfJsLoader \in LoadErrors =>
        /\ pdfJsLoader' = pdfJsLoader /\ scripts' = scripts
        /\ \A c \in Calls :
              (upc[c] = "loadPdfJs" /\ upc'[c] # upc[c]) =>
                  upc'[c] = "failed" /\ uresult'[c] = Failure(pdfJsLoader)

\* C29: once the load has failed, the loader stays rejected with that
\* error and no further script is injected; every call that asks for the
\* library, then or later, fails with that same error before the decoder
\* is called.
C29_RejectedLoaderCached == []C29_Cached /\ [][C29_Step]_vars

\* Both calls failed with the error of the one failed load.
C29_Witness ==
    /\ pdfJsLoader \in LoadErrors /\ scripts = 1
    /\ \A c \in Calls : upc[c] = "failed" /\ loaderCalls[c] = 1
                        /\ uresult[c] = Failure(pdfJsLoader)

====
